---- MODULE Spec2Model ----
(***************************************************************************)
(* Model of src/app.py: the code-redemption store of the file/text share   *)
(* application.  The shared state is the SQLite table `files`, the upload  *)
(* folder and the wall clock.  Every script run of the application opens   *)
(* its own connection (line 48), sweeps (line 163) and then executes the   *)
(* handler of the button that was pressed; script runs are concurrent and  *)
(* interleave at the granularity of their SQL statements, commits and      *)
(* file-system calls.  A writing statement opens a transaction and takes   *)
(* the write lock of the database file, which commit() releases; a SELECT  *)
(* that returned a row holds a read lock until the row has been fetched.   *)
(* A statement that finds a lock in its way raises                         *)
(* sqlite3.OperationalError when the busy timeout has passed; the model    *)
(* lets it raise whenever the lock is held.                                *)
(***************************************************************************)
EXTENDS Integers, Sequences, FiniteSets, TLC

VARIABLES
    files,      \* rows of table `files` (app.py:31-44) as committed, a set of records
    blobs,      \* upload folder: function saved_name -> stored bytes
    nextId,     \* next value of the AUTOINCREMENT primary key
    nextTok,    \* number of the next draw of secrets.token_hex(8)
    clock,      \* int(time.time())
    proc,       \* per request slot: position and local variables
    session,    \* per slot (a browser session): st.session_state["one_time_download"]
    admin,      \* per slot (a browser session): st.session_state["is_admin"]
    lock,       \* lock of the database file held by the connection of an ended
                \* script run whose transaction is open: Unlocked, Reserved
                \* (no other connection writes) or Pending (none reads)
    rlock,      \* TRUE while the connection of an ended script run holds a
                \* read lock (it read inside its open transaction)
    runs        \* number of script runs started so far

vars == <<files, blobs, nextId, nextTok, clock, proc, session, admin, lock, rlock, runs>>

----------------------------------------------------------------------------
(* Bounds of the model. *)

MaxRuns == 4           \* at most this many script runs start
MaxClock == 1          \* the clock runs 0..MaxClock
MaxExpiry == 1         \* expiry_seconds is drawn from 1..MaxExpiry (the forms
                       \* pass int(hours * 3600) with hours >= 1: positive)
MaxUploads == 2        \* at most this many rows are ever inserted
NumCodes == 2          \* generate_code() draws from 1..NumCodes

(* Program constants. *)
MAX_FILE_SIZE_MB == 50

MaxFileSize == MAX_FILE_SIZE_MB * 1024 * 1024

Procs == {"r1", "r2"}
Admins == {"r1"}       \* the sessions whose user enters the admin passcode
Codes == 1..NumCodes
Expiries == 1..MaxExpiry

(* uploaded_file objects offered to save_file: name, bytes, size in bytes. *)
UploadedFiles ==
    { [name |-> "a", content |-> "f1", size |-> MaxFileSize],
      [name |-> "a", content |-> "f2", size |-> MaxFileSize + 1] }

(* Non-blank texts offered to save_text (the form rejects blank text). *)
Texts == {"t1"}

NULL == "NULL"          \* SQL NULL / Python None in a text column
NoName == <<>>          \* saved_name of a row of type 'text' (NULL)
NoData == "none"        \* nothing was handed to the user
Empty == "empty"        \* content of a file that open(dest, "wb") has just made

(* A row of `files` (app.py:31-44). *)
Row(id, code, saved_name, original_name, text_content, created_at, expires_at, downloaded, one_time, type) ==
    [id |-> id, code |-> code, saved_name |-> saved_name,
     original_name |-> original_name, text_content |-> text_content,
     created_at |-> created_at, expires_at |-> expires_at,
     downloaded |-> downloaded, one_time |-> one_time, type |-> type]

(* What fetchone() returns when no row matches: None. *)
NoRec ==
    [id |-> 0, saved_name |-> NoName, original_name |-> NULL, text_content |-> NULL,
     expires_at |-> 0, downloaded |-> 0, one_time |-> 0, type |-> NULL]

(* The column list of get_record_by_code's SELECT (app.py:121). *)
RecOf(r) ==
    [id |-> r.id, saved_name |-> r.saved_name, original_name |-> r.original_name,
     text_content |-> r.text_content, expires_at |-> r.expires_at,
     downloaded |-> r.downloaded, one_time |-> r.one_time, type |-> r.type]

(* int(one_time) on the way into the table, bool(...) on the way out. *)
IntOfBool(b) == IF b THEN 1 ELSE 0
BoolOfInt(i) == i # 0

----------------------------------------------------------------------------
(* SQL statements and file-system calls as operators on the shared state. *)

(* SELECT 1 FROM files WHERE code=? ... fetchone() is not None *)
CodeExists(tbl, code) == \E r \in tbl : r.code = code

(* get_record_by_code: SELECT ... WHERE code=? ; fetchone() *)
get_record_by_code(tbl, code) ==
    IF \E r \in tbl : r.code = code
    THEN RecOf(CHOOSE r \in tbl : r.code = code)
    ELSE NoRec

(* SELECT id, saved_name, type FROM files WHERE expires_at <= ? ; fetchall(),
   in rowid order. *)
RECURSIVE SortById(_)
SortById(S) ==
    IF S = {} THEN <<>>
    ELSE LET m == CHOOSE r \in S : \A q \in S : r.id <= q.id
         IN <<[id |-> m.id, saved_name |-> m.saved_name, type |-> m.type]>>
            \o SortById(S \ {m})

SelectExpired(tbl, now) == SortById({r \in tbl : r.expires_at <= now})

(* the DELETE of the sweep written with < *)
DeleteExpiredStrict(tbl, now) == {r \in tbl : ~(r.expires_at < now)}

(* DELETE FROM files WHERE expires_at <= ? *)
DeleteExpired(tbl, now) == {r \in tbl : ~(r.expires_at <= now)}

(* DELETE FROM files WHERE id=? *)
DeleteById(tbl, id) == {r \in tbl : r.id # id}

(* UPDATE files SET downloaded=1 WHERE id=? *)
UpdateDownloaded(tbl, id) ==
    {IF r.id = id THEN [r EXCEPT !.downloaded = 1] ELSE r : r \in tbl}

(* Path.exists() *)
Exists(fs, name) == name \in DOMAIN fs

(* Path.unlink() on a file that is there *)
Remove(fs, name) == [n \in DOMAIN fs \ {name} |-> fs[n]]

(* the file `name` holds `bytes`: open(dest, "wb") makes it, or truncates the
   one that is there, with no bytes; f.write(bytes) fills it *)
WriteFile(fs, name, bytes) == [n \in DOMAIN fs \cup {name} |-> IF n = name THEN bytes ELSE fs[n]]

(* f"{timestamp}_{secrets.token_hex(8)}_{uploaded_file.name}".  token_hex(8)
   returns 16 hex digits of 64 random bits; the model names a draw by its
   number, so that no two draws return the same token. *)
SavedName(timestamp, token, name) == <<timestamp, token, name>>

----------------------------------------------------------------------------
(* Request slots.  A slot is between script runs ("idle", or "done" with the
   result of its last run) or inside one. *)

Idle ==
    [pc |-> "idle", op |-> "none", site |-> 0, code |-> 0, fname |-> NULL,
     payload |-> NoData, expiry |-> 0, one_time |-> FALSE, timestamp |-> 0,
     saved_name |-> NoName, file_id |-> 0, rec |-> NoRec, now |-> 0, rows |-> <<>>,
     outcome |-> "none", data |-> NoData, sidebar |-> "none", reads |-> 0]

Free(p) == proc[p].pc \in {"idle", "done"}

Set(p, r) == proc' = [proc EXCEPT ![p] = r]

(* The run is over: keep how it ended (outcome, data) and what it acted on
   (code, saved_name, rec, now); the other locals are dead. *)
Finish(l, outcome) ==
    [Idle EXCEPT !.pc = "done", !.op = l.op, !.code = l.code,
                 !.saved_name = l.saved_name, !.rec = l.rec, !.now = l.now,
                 !.outcome = outcome, !.data = l.data]

(* how a run ends when an exception nothing catches ends the script run *)
Crash == "exception"

(* sqlite3.OperationalError (database is locked): a statement or a commit
   has waited for a lock of another connection until the busy timeout *)
OperationalError == "OperationalError"

(* Locks of the database file.  A connection that has executed an INSERT,
   UPDATE or DELETE is in a transaction and holds the write lock until it
   commits: for a running script that is the time between execute() and
   commit(), for an ended one (variable lock) until it is closed. *)
Unlocked == "none"
Reserved == "reserved"
Pending == "pending"

(* the slot has executed a writing statement and not yet committed *)
InFlight(p) == proc[p].pc \in {"c_commit", "s_commit", "m_commit", "m_delcommit", "a_commit"}

(* a writing statement of slot p finds the write lock held by another
   connection *)
WriteLocked(p) == lock # Unlocked \/ \E q \in Procs \ {p} : InFlight(q)

(* a reading statement finds the database closed to readers: a connection
   whose commit failed waits for the readers to leave *)
ReadLocked == lock = Pending

(* the slot has executed a SELECT that returned a row and has not fetched
   it yet: its connection holds a read lock *)
Reading(p) == proc[p].pc \in {"c_fetch", "s_fetch", "d_fetch", "dash", "a_fetch"}

(* a commit of slot p finds a read lock held by another connection *)
ReadHeld(p) == rlock \/ \E q \in Procs \ {p} : Reading(q)

(* The dashboard reads the table with five SELECTs: four aggregates (lines
   305, 307, 309, 311), each fetched by the next line, and that of
   get_all_files (line 322: lines 139-140). *)
DashReads == 5

(* The sidebar (app.py:283-331), which the script reaches when no exception
   has ended it.  For an admin session the block of line 296 follows: the
   run stands before the first SELECT of the dashboard (line 305), holding
   no lock.  r is the slot at the end of the handler. *)
Dashboard(r) == [r EXCEPT !.pc = "dash_next", !.reads = 0]

(* the dashboard is drawn: with "Delete" pressed the run goes on to
   delete_file (line 328), else the script has ended *)
DashEnd(l) == [l EXCEPT !.pc = IF l.op = "delete" THEN "a_select" ELSE "done", !.reads = 0]

Sidebar(p, r) == IF admin[p] THEN Dashboard(r) ELSE r

Init ==
    /\ files = {}
    /\ blobs = [n \in {} |-> NoData]
    /\ nextId = 1
    /\ nextTok = 1
    /\ clock = 0
    /\ proc = [p \in Procs |-> Idle]
    /\ session = [p \in Procs |-> TRUE]
    /\ admin = [p \in Procs |-> FALSE]
    /\ lock = Unlocked
    /\ rlock = FALSE
    /\ runs = 0

(* time passes *)
Tick ==
    /\ clock < MaxClock
    /\ clock' = clock + 1
    /\ UNCHANGED <<files, blobs, nextId, nextTok, proc, session, admin, lock, rlock, runs>>

(* The connection of an ended script run is closed when the garbage collector
   reclaims the run's namespace: its open transaction is rolled back and its
   locks are released. *)
Collect ==
    /\ \/ lock # Unlocked /\ lock' = Unlocked /\ rlock' = rlock
       \/ rlock /\ rlock' = FALSE /\ lock' = lock
    /\ UNCHANGED <<files, blobs, nextId, nextTok, clock, proc, session, admin, runs>>

----------------------------------------------------------------------------
(* cleanup_expired (app.py:57-71).  It runs at line 163 of every script run,
   before any handler, and again at line 253 inside the download handler. *)

(* lines 58-60: now = int(time.time()); SELECT ... WHERE expires_at <= now.
   The SELECT raises sqlite3.OperationalError, which nothing catches, while
   the database is closed to readers; when it returns a row the connection
   holds a read lock until fetchall() has read the last one (no commit
   changes the table before that). *)
CSelect(l) ==
    IF ReadLocked
    THEN Finish(l, OperationalError)
    ELSE [l EXCEPT !.pc = IF SelectExpired(files, clock) = <<>> THEN "c_loop" ELSE "c_fetch",
                   !.now = clock, !.rows = SelectExpired(files, clock)]

(* a script run starts (a widget was touched or the page loaded): conn =
   init_db() at line 48, whose CREATE TABLE IF NOT EXISTS reads the schema,
   then cleanup_expired() at line 163 *)
StartRun(p) ==
    /\ Free(p)
    /\ runs < MaxRuns
    /\ runs' = runs + 1
    /\ Set(p, CSelect([Idle EXCEPT !.op = "run", !.site = 163]))
    /\ UNCHANGED <<files, blobs, nextId, nextTok, clock, session, admin, lock, rlock>>

(* cleanup_expired() called as a function *)
CallCleanup(p) ==
    /\ Free(p)
    /\ Set(p, CSelect([Idle EXCEPT !.op = "sweep"]))
    /\ UNCHANGED <<files, blobs, nextId, nextTok, clock, session, admin, lock, rlock, runs>>

(* line 61: rows = c.fetchall() *)
CFetch(p) ==
    /\ proc[p].pc = "c_fetch"
    /\ Set(p, [proc[p] EXCEPT !.pc = "c_loop"])
    /\ UNCHANGED <<files, blobs, nextId, nextTok, clock, session, admin, lock, rlock, runs>>

(* loop head: if ftype == 'file': if fpath.exists(): *)
CExists(p) ==
    LET l == proc[p] IN
    /\ l.pc = "c_loop"
    /\ l.rows # <<>>
    /\ IF Head(l.rows).type = "file" /\ Exists(blobs, Head(l.rows).saved_name)
       THEN Set(p, [l EXCEPT !.pc = "c_unlink"])
       ELSE Set(p, [l EXCEPT !.rows = Tail(l.rows)])
    /\ UNCHANGED <<files, blobs, nextId, nextTok, clock, session, admin, lock, rlock, runs>>

(* fpath.unlink(); FileNotFoundError is swallowed by `except Exception: pass` *)
CUnlink(p) ==
    LET l == proc[p] IN
    /\ l.pc = "c_unlink"
    /\ blobs' = IF Exists(blobs, Head(l.rows).saved_name)
                THEN Remove(blobs, Head(l.rows).saved_name)
                ELSE blobs
    /\ Set(p, [l EXCEPT !.pc = "c_loop", !.rows = Tail(l.rows)])
    /\ UNCHANGED <<files, nextId, nextTok, clock, session, admin, lock, rlock, runs>>

(* fpath.unlink() raising and nothing catching it: the sweep ends there *)
CUnlinkFailsAborts(p) ==
    LET l == proc[p] IN
    /\ l.pc = "c_unlink"
    /\ Set(p, Finish(l, Crash))
    /\ UNCHANGED <<files, blobs, nextId, nextTok, clock, session, admin, lock, rlock, runs>>

(* fpath.unlink() raises (PermissionError, OSError, ...): the file stays,
   `except Exception: pass` of lines 68-69 swallows the exception and the for
   loop goes on with the next row *)
CUnlinkFails(p) ==
    LET l == proc[p] IN
    /\ l.pc = "c_unlink"
    /\ Set(p, [l EXCEPT !.pc = "c_loop", !.rows = Tail(l.rows)])
    /\ UNCHANGED <<files, blobs, nextId, nextTok, clock, session, admin, lock, rlock, runs>>

(* line 70: c.execute("DELETE FROM files WHERE expires_at <= ?", (now,)).
   The statement opens a transaction and takes the write lock; while another
   connection holds it the statement raises sqlite3.OperationalError, which
   nothing catches.  No other connection sees the deletion before the
   commit. *)
CDelete(p) ==
    LET l == proc[p] IN
    /\ l.pc = "c_loop"
    /\ l.rows = <<>>
    /\ IF WriteLocked(p)
       THEN Set(p, Finish([l EXCEPT !.now = 0], OperationalError))
       ELSE Set(p, [l EXCEPT !.pc = "c_commit"])
    /\ UNCHANGED <<files, blobs, nextId, nextTok, clock, session, admin, lock, rlock, runs>>

(* line 71: conn.commit().  The commit waits for the readers to leave; while
   a connection holds a read lock it raises sqlite3.OperationalError, which
   nothing catches: the deletion is not committed and the connection keeps
   its locks.  After the sweep of line 163 the run goes on to the buttons,
   after that of line 253 to the lookup. *)
CCommit(p) ==
    LET l == proc[p] IN
    /\ l.pc = "c_commit"
    /\ IF ReadHeld(p)
       THEN /\ Set(p, Finish([l EXCEPT !.now = 0], OperationalError))
            /\ lock' = Pending
            /\ UNCHANGED files
       ELSE /\ files' = DeleteExpired(files, l.now)
            /\ UNCHANGED lock
            /\ IF l.site = 163
               THEN Set(p, [Idle EXCEPT !.pc = "buttons", !.op = "run"])
               ELSE IF l.site = 253
               THEN Set(p, [l EXCEPT !.pc = "d_lookup", !.now = 0])
               ELSE Set(p, Finish([l EXCEPT !.now = 0], "ok"))
    /\ UNCHANGED <<blobs, nextId, nextTok, clock, session, admin, rlock, runs>>

(* no button is pressed in this run (or one that changes nothing: a form
   without its input, a wrong passcode): the script runs on to the sidebar *)
NoButton(p) ==
    /\ proc[p].pc = "buttons"
    /\ Set(p, Sidebar(p, Finish([Idle EXCEPT !.op = "sweep"], "ok")))
    /\ UNCHANGED <<files, blobs, nextId, nextTok, clock, session, admin, lock, rlock, runs>>

(* "Login as Admin" is pressed with the passcode (lines 289-291); the
   dashboard is shown in the same run (line 296) *)
Login(p) ==
    /\ proc[p].pc = "buttons"
    /\ p \in Admins
    /\ ~admin[p]
    /\ admin' = [admin EXCEPT ![p] = TRUE]
    /\ Set(p, Dashboard(Finish([Idle EXCEPT !.op = "login"], "ok")))
    /\ UNCHANGED <<files, blobs, nextId, nextTok, clock, session, lock, rlock, runs>>

(* "Logout" is pressed (lines 298-300), inside the block of line 296: the
   dashboard is still shown in this run *)
Logout(p) ==
    /\ proc[p].pc = "buttons"
    /\ admin[p]
    /\ admin' = [admin EXCEPT ![p] = FALSE]
    /\ Set(p, Dashboard(Finish([Idle EXCEPT !.op = "logout"], "ok")))
    /\ UNCHANGED <<files, blobs, nextId, nextTok, clock, session, lock, rlock, runs>>

(* lines 306, 308, 310, 312 and 140: c.fetchone()[0] / c.fetchall() reads the
   rows of the SELECT before it, whose read lock goes *)
DashFetch(p) ==
    LET l == proc[p] IN
    /\ l.pc = "dash"
    /\ IF l.reads < DashReads
       THEN Set(p, [l EXCEPT !.pc = "dash_next"])
       ELSE Set(p, DashEnd(l))
    /\ UNCHANGED <<files, blobs, nextId, nextTok, clock, session, admin, lock, rlock, runs>>

(* The next SELECT of the dashboard (lines 305, 307, 309, 311 and 139): it raises
   sqlite3.OperationalError, which nothing catches, while the database is
   closed to readers.  An aggregate returns one row; the SELECT of
   get_all_files returns a row when the table holds one.  A connection that
   is in the transaction a failed INSERT left open (pc "sidebar": the form
   caught sqlite3.OperationalError at line 217 / 242) keeps the read lock of
   its first SELECT (line 305) through the dashboard and when the script has
   ended. *)
DashSelect(p) ==
    LET l == proc[p] IN
    /\ l.pc \in {"dash_next", "sidebar"}
    /\ IF l.pc = "sidebar"
       THEN /\ Set(p, [l EXCEPT !.pc = "done",
                                 !.sidebar = IF ReadLocked THEN OperationalError ELSE "none"])
            /\ rlock' = (rlock \/ ~ReadLocked)
       ELSE /\ UNCHANGED rlock
            /\ IF ReadLocked
               THEN Set(p, [l EXCEPT !.pc = "done", !.sidebar = OperationalError, !.reads = 0])
               ELSE IF l.reads + 1 = DashReads /\ files = {}
               THEN Set(p, DashEnd(l))
               ELSE Set(p, [l EXCEPT !.pc = "dash", !.reads = l.reads + 1])
    /\ UNCHANGED <<files, blobs, nextId, nextTok, clock, session, admin, lock, runs>>

----------------------------------------------------------------------------
(* save_file (app.py:73-100) and save_text (app.py:102-117). *)

(* how an upload ends *)
ValueError == "ValueError"               \* raise ValueError("File exceeds ...")  line 78
IntegrityError == "IntegrityError"       \* the INSERT violates UNIQUE(code)

(* code = generate_code(); c.execute("SELECT 1 FROM files WHERE code=?")
   (lines 80-83 and 103-106), which raises sqlite3.OperationalError while
   the database is closed to readers; the loop is left when no row holds the
   code *)
Probe(l, c) ==
    IF ReadLocked
    THEN Finish(l, OperationalError)
    ELSE IF CodeExists(files, c)
    THEN [l EXCEPT !.pc = "s_fetch"]
    ELSE [l EXCEPT !.pc = "s_stamp", !.code = c]

(* Uploads under way, and the bound on uploads: a new one starts only while
   the ids handed out and the uploads under way stay within MaxUploads. *)
Uploading == {q \in Procs : proc[q].op \in {"save_file", "save_text"} /\ proc[q].outcome = "none"}
MayUpload == nextId + Cardinality(Uploading) <= MaxUploads

(* the size check written with >= *)
TooLargeInclusive(size) == size >= MaxFileSize

(* line 77: uploaded_file.size > MAX_FILE_SIZE_MB * 1024 * 1024 *)
TooLarge(size) == size > MaxFileSize

(* The call has ended (r.pc = "done"), by its return or by an exception
   that the form catches (lines 217 and 242): the script of an admin
   session runs on to the sidebar. *)
Returned(p, r) == IF r.pc = "done" THEN Sidebar(p, r) ELSE r

(* save_file(uploaded_file, expiry_seconds, one_time) with expiry_seconds
   from exps.  Lines 74-78: the size check, which raises before anything is
   touched (the refused payload stays in the slot); then the first turn of
   the loop. *)
SaveFile(p, exps) ==
    /\ \E f \in UploadedFiles, e \in exps, o \in BOOLEAN, c \in Codes :
          IF TooLarge(f.size)
          THEN Set(p, Sidebar(p, [Finish([Idle EXCEPT !.op = "save_file"], ValueError)
                                     EXCEPT !.payload = f.content]))
          ELSE Set(p, Returned(p, Probe([Idle EXCEPT !.op = "save_file", !.fname = f.name,
                                                     !.payload = f.content, !.expiry = e,
                                                     !.one_time = o], c)))
    /\ UNCHANGED <<files, blobs, nextId, nextTok, clock, session, admin, lock, rlock, runs>>

(* save_text(text, expiry_seconds, one_time) with expiry_seconds from exps *)
SaveText(p, exps) ==
    /\ \E t \in Texts, e \in exps, o \in BOOLEAN, c \in Codes :
          Set(p, Returned(p, Probe([Idle EXCEPT !.op = "save_text", !.payload = t,
                                                !.expiry = e, !.one_time = o], c)))
    /\ UNCHANGED <<files, blobs, nextId, nextTok, clock, session, admin, lock, rlock, runs>>

(* the upload forms (app.py:196-243): "Generate File Code" / "Generate Text
   Code" is pressed; expiry_seconds = int(hours * 3600) with hours from
   1..168.  An exception of the call is caught at line 217 / 242 and shown. *)
StartSaveFile(p) == proc[p].pc = "buttons" /\ MayUpload /\ SaveFile(p, Expiries)

StartSaveText(p) == proc[p].pc = "buttons" /\ MayUpload /\ SaveText(p, Expiries)

(* lines 84 and 107: c.fetchone() is not None, a row holds the code *)
SFetch(p) ==
    /\ proc[p].pc = "s_fetch"
    /\ Set(p, [proc[p] EXCEPT !.pc = "s_probe"])
    /\ UNCHANGED <<files, blobs, nextId, nextTok, clock, session, admin, lock, rlock, runs>>

(* a further turn of the while True loop *)
SProbe(p) ==
    /\ proc[p].pc = "s_probe"
    /\ \E c \in Codes : Set(p, Returned(p, Probe(proc[p], c)))
    /\ UNCHANGED <<files, blobs, nextId, nextTok, clock, session, admin, lock, rlock, runs>>

(* timestamp = int(time.time()) (lines 88 and 110); for a file also
   expires_at and saved_name = ... with a draw of secrets.token_hex(8), which
   no other draw repeats (lines 89-91) *)
SStamp(p) ==
    LET l == proc[p] IN
    /\ l.pc = "s_stamp"
    /\ IF l.op = "save_file"
       THEN /\ Set(p, [l EXCEPT !.pc = "s_open", !.timestamp = clock,
                                !.saved_name = SavedName(clock, nextTok, l.fname)])
            /\ nextTok' = nextTok + 1
       ELSE /\ Set(p, [l EXCEPT !.pc = "s_insert", !.timestamp = clock])
            /\ UNCHANGED nextTok
    /\ UNCHANGED <<files, blobs, nextId, clock, session, admin, lock, rlock, runs>>

(* line 92: with open(dest, "wb") as f: the file is there, with no bytes *)
SOpen(p) ==
    LET l == proc[p] IN
    /\ l.pc = "s_open"
    /\ blobs' = WriteFile(blobs, l.saved_name, Empty)
    /\ Set(p, [l EXCEPT !.pc = "s_write"])
    /\ UNCHANGED <<files, nextId, nextTok, clock, session, admin, lock, rlock, runs>>

(* line 93: f.write(uploaded_file.read()), and the file is closed: it holds
   the bytes (a file that was unlinked since line 92 stays away) *)
SWrite(p) ==
    LET l == proc[p] IN
    /\ l.pc = "s_write"
    /\ blobs' = IF Exists(blobs, l.saved_name)
                THEN WriteFile(blobs, l.saved_name, l.payload)
                ELSE blobs
    /\ Set(p, [l EXCEPT !.pc = "s_insert"])
    /\ UNCHANGED <<files, nextId, nextTok, clock, session, admin, lock, rlock, runs>>

(* the id of a plain INTEGER PRIMARY KEY: one more than the largest id in the
   table *)
NewIdRowid(tbl, next) ==
    IF tbl = {} THEN 1 ELSE 1 + (CHOOSE i \in {r.id : r \in tbl} : \A r \in tbl : r.id <= i)

(* id INTEGER PRIMARY KEY AUTOINCREMENT (line 33): one more than the largest
   id the table has ever held *)
NewId(tbl, next) == next

(* c.execute("INSERT INTO files ...") (lines 95-98 and 112-115).  The
   statement opens a transaction and takes the write lock; while another
   connection holds it the INSERT raises sqlite3.OperationalError.
   UNIQUE(code) makes the INSERT raise sqlite3.IntegrityError when a row
   already holds the code; nothing in save_file or save_text handles either:
   no rollback, so the connection stays in its transaction, after an
   IntegrityError with the write lock, after an OperationalError with no
   lock until it reads (the dashboard of an admin session, pc "sidebar"). *)
SInsert(p) ==
    LET l == proc[p] IN
    /\ l.pc = "s_insert"
    /\ IF WriteLocked(p)
       THEN /\ Set(p, [Finish(l, OperationalError) EXCEPT !.pc = IF admin[p] THEN "sidebar" ELSE "done"])
            /\ UNCHANGED lock
       ELSE IF CodeExists(files, l.code)
       THEN /\ Set(p, Finish(l, IntegrityError))
            /\ lock' = Reserved
       ELSE /\ Set(p, [l EXCEPT !.pc = "s_commit"])
            /\ UNCHANGED lock
    /\ UNCHANGED <<files, blobs, nextId, nextTok, clock, session, admin, rlock, runs>>

(* conn.commit() (lines 99 and 116) and the return: the row is in the table.
   While a connection holds a read lock the commit raises
   sqlite3.OperationalError: the row is not committed and the connection
   keeps its locks. *)
SCommitRow(p) ==
    LET l == proc[p]
        row == IF l.op = "save_file"
               THEN Row(NewId(files, nextId), l.code, l.saved_name, l.fname, NULL, l.timestamp,
                        l.timestamp + l.expiry, 0, IntOfBool(l.one_time), "file")
               ELSE Row(NewId(files, nextId), l.code, NoName, NULL, l.payload, l.timestamp,
                        l.timestamp + l.expiry, 0, IntOfBool(l.one_time), "text")
    IN
    /\ l.pc = "s_commit"
    /\ IF ReadHeld(p)
       THEN /\ Set(p, Finish(l, OperationalError))
            /\ lock' = Pending
            /\ UNCHANGED <<files, nextId>>
       ELSE /\ files' = files \cup {row}
            /\ nextId' = nextId + 1
            /\ Set(p, Sidebar(p, Finish(l, "ok")))
            /\ UNCHANGED lock
    /\ UNCHANGED <<blobs, nextTok, clock, admin, rlock, runs>>

(* save_file / save_text called as functions *)
SCommit(p) == SCommitRow(p) /\ UNCHANGED session

(* the commit in a form handler, whose next statement is reached when the
   call returned: st.session_state["one_time_download"] = one_time (lines
   212 and 237) *)
SCommitStore(p) ==
    /\ SCommitRow(p)
    /\ session' = IF proc'[p].outcome = "ok"
                  THEN [session EXCEPT ![p] = proc[p].one_time]
                  ELSE session

----------------------------------------------------------------------------
(* The "Fetch & Download" handler (app.py:249-280) with
   mark_downloaded_and_maybe_delete (app.py:124-135). *)

(* what a redemption shows the user *)
Invalid == "invalid"         \* st.error("Invalid or expired code.")       line 256
ExpiredMsg == "expired"      \* st.error("Code expired.")                  line 262
Already == "already"         \* st.error("Already downloaded (one-time).") line 264
NotFound == "file_not_found" \* st.error("File not found.")                line 269

(* line 261: expires_at <= now *)
IsExpired(expires_at, now) == expires_at <= now

(* line 263: one_time_flag and downloaded *)
IsConsumed(one_time, downloaded) == BoolOfInt(one_time) /\ BoolOfInt(downloaded)

(* "Fetch & Download" is pressed and code_input.strip() is not empty; line 253
   starts cleanup_expired() *)
StartDownload(p) ==
    /\ proc[p].pc = "buttons"
    /\ \E c \in Codes :
          Set(p, CSelect([Idle EXCEPT !.op = "download", !.code = c, !.site = 253]))
    /\ UNCHANGED <<files, blobs, nextId, nextTok, clock, session, admin, lock, rlock, runs>>

(* line 121: the SELECT of get_record_by_code(code); with no row for the
   code: "Invalid or expired code." (line 256) *)
DLookup(p) ==
    LET l == proc[p]
        rec == get_record_by_code(files, l.code)
    IN
    /\ l.pc = "d_lookup"
    /\ IF ReadLocked
       THEN Set(p, Finish(l, OperationalError))
       ELSE IF rec = NoRec
       THEN Set(p, Sidebar(p, Finish(l, Invalid)))
       ELSE Set(p, [l EXCEPT !.pc = "d_fetch", !.rec = rec])
    /\ UNCHANGED <<files, blobs, nextId, nextTok, clock, session, admin, lock, rlock, runs>>

(* line 122: return c.fetchone() *)
DFetch(p) ==
    /\ proc[p].pc = "d_fetch"
    /\ Set(p, [proc[p] EXCEPT !.pc = "d_check"])
    /\ UNCHANGED <<files, blobs, nextId, nextTok, clock, session, admin, lock, rlock, runs>>

(* now = int(time.time()) and the branches of lines 261-266 and 276.  In the
   text branch st.text_area shows text_content, and the next statement reads
   the name `code`, which no statement of a download run has bound: NameError
   at line 278, before mark_downloaded_and_maybe_delete. *)
DCheck(p) ==
    LET l == [proc[p] EXCEPT !.now = clock] IN
    /\ l.pc = "d_check"
    /\ IF IsExpired(l.rec.expires_at, l.now)
       THEN Set(p, Sidebar(p, Finish(l, ExpiredMsg)))
       ELSE IF IsConsumed(l.rec.one_time, l.rec.downloaded)
       THEN Set(p, Sidebar(p, Finish(l, Already)))
       ELSE IF l.rec.type = "file"
       THEN Set(p, [l EXCEPT !.pc = "d_exists"])
       ELSE Set(p, Finish([l EXCEPT !.data = l.rec.text_content], Crash))
    /\ UNCHANGED <<files, blobs, nextId, nextTok, clock, session, admin, lock, rlock, runs>>

(* if not path.exists(): "File not found." *)
DExists(p) ==
    LET l == proc[p] IN
    /\ l.pc = "d_exists"
    /\ IF Exists(blobs, l.rec.saved_name)
       THEN Set(p, [l EXCEPT !.pc = "d_read"])
       ELSE Set(p, Sidebar(p, Finish(l, NotFound)))
    /\ UNCHANGED <<files, blobs, nextId, nextTok, clock, session, admin, lock, rlock, runs>>

(* open(path, "rb").read(); st.download_button(data=data).  open() raises
   FileNotFoundError when the file went away after the exists() check. *)
DRead(p) ==
    LET l == proc[p] IN
    /\ l.pc = "d_read"
    /\ IF Exists(blobs, l.rec.saved_name)
       THEN Set(p, [l EXCEPT !.pc = "m_update", !.data = blobs[l.rec.saved_name]])
       ELSE Set(p, Finish(l, Crash))
    /\ UNCHANGED <<files, blobs, nextId, nextTok, clock, session, admin, lock, rlock, runs>>

(* line 126: c.execute("UPDATE files SET downloaded=1 WHERE id=?") takes the
   write lock, or raises sqlite3.OperationalError, which nothing catches *)
MUpdate(p) ==
    LET l == proc[p] IN
    /\ l.pc = "m_update"
    /\ IF WriteLocked(p)
       THEN Set(p, Finish(l, OperationalError))
       ELSE Set(p, [l EXCEPT !.pc = "m_commit"])
    /\ UNCHANGED <<files, blobs, nextId, nextTok, clock, session, admin, lock, rlock, runs>>

(* the one-time branch taken on the session's checkbox value instead of the
   row's one_time *)
MCommitBySession(p) ==
    LET l == proc[p] IN
    /\ l.pc = "m_commit"
    /\ IF ReadHeld(p)
       THEN /\ Set(p, Finish(l, OperationalError))
            /\ lock' = Pending
            /\ UNCHANGED files
       ELSE /\ files' = UpdateDownloaded(files, l.rec.id)
            /\ UNCHANGED lock
            /\ IF session[p]
               THEN Set(p, [l EXCEPT !.pc = IF l.rec.type = "file" THEN "m_unlink" ELSE "m_delete"])
               ELSE Set(p, Sidebar(p, Finish(l, "ok")))
    /\ UNCHANGED <<blobs, nextId, nextTok, clock, session, admin, rlock, runs>>

(* line 127: conn.commit(), then line 128: if one_time: ... *)
MCommit(p) ==
    LET l == proc[p] IN
    /\ l.pc = "m_commit"
    /\ IF ReadHeld(p)
       THEN /\ Set(p, Finish(l, OperationalError))
            /\ lock' = Pending
            /\ UNCHANGED files
       ELSE /\ files' = UpdateDownloaded(files, l.rec.id)
            /\ UNCHANGED lock
            /\ IF BoolOfInt(l.rec.one_time)
               THEN Set(p, [l EXCEPT !.pc = IF l.rec.type = "file" THEN "m_unlink" ELSE "m_delete"])
               ELSE Set(p, Sidebar(p, Finish(l, "ok")))
    /\ UNCHANGED <<blobs, nextId, nextTok, clock, session, admin, rlock, runs>>

(* (UPLOAD_FOLDER / saved_name).unlink(missing_ok=True) *)
MUnlink(p) ==
    LET l == proc[p] IN
    /\ l.pc = "m_unlink"
    /\ blobs' = IF Exists(blobs, l.rec.saved_name)
                THEN Remove(blobs, l.rec.saved_name)
                ELSE blobs
    /\ Set(p, [l EXCEPT !.pc = "m_delete"])
    /\ UNCHANGED <<files, nextId, nextTok, clock, session, admin, lock, rlock, runs>>

(* line 134: c.execute("DELETE FROM files WHERE id=?") *)
MDelete(p) ==
    LET l == proc[p] IN
    /\ l.pc = "m_delete"
    /\ IF WriteLocked(p)
       THEN Set(p, Finish(l, OperationalError))
       ELSE Set(p, [l EXCEPT !.pc = "m_delcommit"])
    /\ UNCHANGED <<files, blobs, nextId, nextTok, clock, session, admin, lock, rlock, runs>>

(* the DELETE of line 134 selecting by the code the user typed instead of the
   id of the row that was looked up *)
MDeleteCommitByCode(p) ==
    LET l == proc[p] IN
    /\ l.pc = "m_delcommit"
    /\ IF ReadHeld(p)
       THEN /\ Set(p, Finish(l, OperationalError))
            /\ lock' = Pending
            /\ UNCHANGED files
       ELSE /\ files' = {r \in files : r.code # l.code}
            /\ Set(p, Sidebar(p, Finish(l, "ok")))
            /\ UNCHANGED lock
    /\ UNCHANGED <<blobs, nextId, nextTok, clock, session, admin, rlock, runs>>

(* line 135: conn.commit() *)
MDeleteCommit(p) ==
    LET l == proc[p] IN
    /\ l.pc = "m_delcommit"
    /\ IF ReadHeld(p)
       THEN /\ Set(p, Finish(l, OperationalError))
            /\ lock' = Pending
            /\ UNCHANGED files
       ELSE /\ files' = DeleteById(files, l.rec.id)
            /\ Set(p, Sidebar(p, Finish(l, "ok")))
            /\ UNCHANGED lock
    /\ UNCHANGED <<blobs, nextId, nextTok, clock, session, admin, rlock, runs>>

----------------------------------------------------------------------------
(* delete_file (app.py:148-161), called by the admin panel (app.py:326-331). *)

(* "Delete" is pressed in the dashboard of an admin session, with an id of
   the number_input (min_value=1): the script first reads the dashboard *)
StartDelete(p) ==
    /\ proc[p].pc = "buttons"
    /\ admin[p]
    /\ \E i \in 1..nextId :
          Set(p, Dashboard([Idle EXCEPT !.op = "delete", !.file_id = i]))
    /\ UNCHANGED <<files, blobs, nextId, nextTok, clock, session, admin, lock, rlock, runs>>

(* line 150 of delete_file(file_id): SELECT saved_name, type FROM files WHERE
   id=?, which raises sqlite3.OperationalError while the database is closed
   to readers; with no row of that id delete_file returns False *)
ASelect(p) ==
    LET l == proc[p] IN
    /\ l.pc = "a_select"
    /\ IF ReadLocked
       THEN Set(p, Finish(l, OperationalError))
       ELSE IF \E r \in files : r.id = l.file_id
       THEN LET r == CHOOSE r \in files : r.id = l.file_id IN
            Set(p, [l EXCEPT !.pc = "a_fetch",
                             !.rec = [NoRec EXCEPT !.id = r.id,
                                                   !.saved_name = r.saved_name,
                                                   !.type = r.type]])
       ELSE Set(p, Finish(l, "false"))
    /\ UNCHANGED <<files, blobs, nextId, nextTok, clock, session, admin, lock, rlock, runs>>

(* line 151: row = c.fetchone(); if row: ... if ftype == 'file': *)
AFetch(p) ==
    LET l == proc[p] IN
    /\ l.pc = "a_fetch"
    /\ Set(p, [l EXCEPT !.pc = IF l.rec.type = "file" THEN "a_exists" ELSE "a_delete"])
    /\ UNCHANGED <<files, blobs, nextId, nextTok, clock, session, admin, lock, rlock, runs>>

(* if fpath.exists(): *)
AExists(p) ==
    LET l == proc[p] IN
    /\ l.pc = "a_exists"
    /\ Set(p, [l EXCEPT !.pc = IF Exists(blobs, l.rec.saved_name)
                               THEN "a_unlink" ELSE "a_delete"])
    /\ UNCHANGED <<files, blobs, nextId, nextTok, clock, session, admin, lock, rlock, runs>>

(* fpath.unlink(): FileNotFoundError is not caught here *)
AUnlink(p) ==
    LET l == proc[p] IN
    /\ l.pc = "a_unlink"
    /\ IF Exists(blobs, l.rec.saved_name)
       THEN /\ blobs' = Remove(blobs, l.rec.saved_name)
            /\ Set(p, [l EXCEPT !.pc = "a_delete"])
       ELSE /\ blobs' = blobs
            /\ Set(p, Finish(l, Crash))
    /\ UNCHANGED <<files, nextId, nextTok, clock, session, admin, lock, rlock, runs>>

(* line 158: c.execute("DELETE FROM files WHERE id=?") *)
ADelete(p) ==
    LET l == proc[p] IN
    /\ l.pc = "a_delete"
    /\ IF WriteLocked(p)
       THEN Set(p, Finish(l, OperationalError))
       ELSE Set(p, [l EXCEPT !.pc = "a_commit"])
    /\ UNCHANGED <<files, blobs, nextId, nextTok, clock, session, admin, lock, rlock, runs>>

(* line 159: conn.commit(); return True *)
ACommit(p) ==
    LET l == proc[p] IN
    /\ l.pc = "a_commit"
    /\ IF ReadHeld(p)
       THEN /\ Set(p, Finish(l, OperationalError))
            /\ lock' = Pending
            /\ UNCHANGED files
       ELSE /\ files' = DeleteById(files, l.file_id)
            /\ Set(p, Finish(l, "true"))
            /\ UNCHANGED lock
    /\ UNCHANGED <<blobs, nextId, nextTok, clock, session, admin, rlock, runs>>

----------------------------------------------------------------------------
(* One step of the script run in slot p. *)
Step(p) ==
    \/ StartRun(p) \/ CFetch(p) \/ CExists(p) \/ CUnlink(p) \/ CDelete(p) \/ CCommit(p)
    \/ NoButton(p) \/ Login(p) \/ Logout(p) \/ DashFetch(p) \/ DashSelect(p)
    \/ StartSaveFile(p) \/ StartSaveText(p) \/ SFetch(p) \/ SProbe(p) \/ SStamp(p) \/ SOpen(p) \/ SWrite(p)
    \/ SInsert(p) \/ SCommitStore(p)
    \/ StartDownload(p) \/ DLookup(p) \/ DFetch(p) \/ DCheck(p) \/ DExists(p) \/ DRead(p)
    \/ MUpdate(p) \/ MCommit(p) \/ MUnlink(p) \/ MDelete(p) \/ MDeleteCommit(p)
    \/ StartDelete(p) \/ ASelect(p) \/ AFetch(p) \/ AExists(p) \/ AUnlink(p) \/ ADelete(p) \/ ACommit(p)

(* Script runs interleave freely. *)
Next == Tick \/ Collect \/ \E p \in Procs : Step(p)

Spec == Init /\ [][Next]_vars

(* Script runs one after another: a run steps only while every other slot is
   between runs.  Time still passes inside a run.  No statement finds a lock
   held, so no connection is left with an open transaction. *)
Alone(p) == \A q \in Procs \ {p} : Free(q)

NextSeq == Tick \/ \E p \in Procs : Alone(p) /\ Step(p)

SpecSeq == Init /\ [][NextSeq]_vars

----------------------------------------------------------------------------
(* save_file, save_text and cleanup_expired called as functions, one call
   after another, with expiry_seconds from 0 on (neither function checks
   it).  Calls are bounded so that one more upload than there are
   codes can start.  A call that has started keeps running (weak fairness of
   its steps) and time passes; nothing obliges a new call to arrive. *)
CallExpiries == 0..(MaxExpiry + 1)

MayCall == nextId + Cardinality(Uploading) <= NumCodes + 1

CallSaveFile(p) == Free(p) /\ MayCall /\ SaveFile(p, CallExpiries)

CallSaveText(p) == Free(p) /\ MayCall /\ SaveText(p, CallExpiries)

Continue(p) ==
    /\ Alone(p)
    /\ \/ SFetch(p) \/ SProbe(p) \/ SStamp(p) \/ SOpen(p) \/ SWrite(p) \/ SInsert(p) \/ SCommit(p)
       \/ CFetch(p) \/ CExists(p) \/ CUnlink(p) \/ CDelete(p) \/ CCommit(p)

NextCalls ==
    \/ Tick
    \/ \E p \in Procs :
          \/ Alone(p) /\ CallSaveFile(p)
          \/ Alone(p) /\ CallSaveText(p)
          \/ Alone(p) /\ SFetch(p)
          \/ Alone(p) /\ SProbe(p)
          \/ Alone(p) /\ SStamp(p)
          \/ Alone(p) /\ SOpen(p)
          \/ Alone(p) /\ SWrite(p)
          \/ Alone(p) /\ SInsert(p)
          \/ Alone(p) /\ SCommit(p)
          \/ Alone(p) /\ CallCleanup(p)
          \/ Alone(p) /\ CFetch(p)
          \/ Alone(p) /\ CExists(p)
          \/ Alone(p) /\ CUnlink(p)
          \/ Alone(p) /\ CDelete(p)
          \/ Alone(p) /\ CCommit(p)

SpecCalls ==
    /\ Init
    /\ [][NextCalls]_vars
    /\ WF_vars(Tick)
    /\ \A p \in Procs : WF_vars(Continue(p))

----------------------------------------------------------------------------
(* Script runs that upload or press no button, one after another, on a file
   system where an unlink may fail. *)
NextFault ==
    \/ Tick
    \/ \E p \in Procs :
          \/ Alone(p) /\ StartRun(p)
          \/ Alone(p) /\ CFetch(p)
          \/ Alone(p) /\ CExists(p)
          \/ Alone(p) /\ CUnlink(p)
          \/ Alone(p) /\ CUnlinkFails(p)
          \/ Alone(p) /\ CDelete(p)
          \/ Alone(p) /\ CCommit(p)
          \/ Alone(p) /\ NoButton(p)
          \/ Alone(p) /\ StartSaveFile(p)
          \/ Alone(p) /\ StartSaveText(p)
          \/ Alone(p) /\ SFetch(p)
          \/ Alone(p) /\ SProbe(p)
          \/ Alone(p) /\ SStamp(p)
          \/ Alone(p) /\ SOpen(p)
          \/ Alone(p) /\ SWrite(p)
          \/ Alone(p) /\ SInsert(p)
          \/ Alone(p) /\ SCommitStore(p)

SpecFault == Init /\ [][NextFault]_vars

----------------------------------------------------------------------------
(* Properties. *)

Redemptions == {p \in Procs : proc[p].op = "download"}
Ended == {p \in Procs : proc[p].pc = "done"}
Found(p) == proc[p].rec.id # 0
OneTime(p) == proc[p].rec.one_time # 0
Served(p) == proc[p].data # NoData
Quiescent == \A p \in Procs : Free(p)
FileRows == {r \in files : r.type = "file"}

(* C1: one-time exclusivity.  When a redemption has obtained the payload of
   a one-time entry, every other redemption that looked up the same entry
   obtains nothing and ends in the already-downloaded or the invalid/expired
   outcome. *)
OneTimeExclusivity ==
    \A p, q \in Redemptions :
       (p # q /\ Found(p) /\ OneTime(p) /\ Served(p)
          /\ proc[q].rec.id = proc[p].rec.id /\ proc[q].pc = "done")
          => /\ ~Served(q)
             /\ proc[q].outcome \in {Already, Invalid, ExpiredMsg}

(* C2: uniqueness.  Every upload that passed the size check returns a code,
   and no two rows of the table share a code. *)
UploadsIssueDistinctCodes ==
    /\ \A p \in Ended :
          (proc[p].op \in {"save_file", "save_text"} /\ proc[p].outcome # ValueError)
             => proc[p].outcome = "ok"
    /\ \A r, q \in files : r.code = q.code => r = q

(* C3: no orphan blobs.  When every operation that was started has ended
   (no script run is under way), every file of the upload folder is the
   saved_name of exactly one row of type 'file', and the file of every such
   row exists. *)
NoOrphanBlobs ==
    Quiescent =>
       /\ \A n \in DOMAIN blobs : Cardinality({r \in FileRows : r.saved_name = n}) = 1
       /\ \A r \in FileRows : r.saved_name \in DOMAIN blobs

(* C4: consume-then-gone, for both kinds.  With requests run one after
   another, a redemption of a one-time entry that is unexpired at its check
   returns the payload; once it has ended, the row and (for a file) the blob
   are gone; and no other redemption obtains that entry's payload. *)
ConsumeThenGone ==
    /\ \A p \in Redemptions \cap Ended :
          (Found(p) /\ OneTime(p) /\ proc[p].now < proc[p].rec.expires_at)
             => /\ Served(p)
                /\ ~(\E r \in files : r.id = proc[p].rec.id)
                /\ proc[p].rec.saved_name \notin DOMAIN blobs
    /\ \A p, q \in Redemptions \cap Ended :
          (p # q /\ Found(p) /\ OneTime(p) /\ proc[q].rec.id = proc[p].rec.id)
             => ~(Served(p) /\ Served(q))
    /\ \A p \in Redemptions \cap Ended :
          ~Found(p) => (proc[p].outcome = Invalid /\ ~Served(p))

(* C5: redeemability predicate.  A redemption that evaluated an entry whose
   row is (still) in the table returned the payload if and only if
   now < expires_at and (one_time is false or downloaded is false). *)
RedeemableIff ==
    \A p \in Redemptions \cap Ended :
       (Found(p) /\ \E r \in files : r.id = proc[p].rec.id)
          => (Served(p) <=>
                 /\ proc[p].now < proc[p].rec.expires_at
                 /\ (proc[p].rec.one_time = 0 \/ proc[p].rec.downloaded = 0))

(* C6: indistinguishable failure.  A redemption of a code that no row holds,
   of an entry that has expired and of a consumed one-time entry all end in
   the same outcome (redemptions that a locked database ended are left
   aside). *)
IndistinguishableFailure ==
    \A p \in Redemptions \cap Ended :
       (/\ proc[p].outcome # OperationalError
        /\ \/ ~Found(p)
           \/ proc[p].rec.expires_at <= proc[p].now
           \/ (proc[p].rec.one_time # 0 /\ proc[p].rec.downloaded # 0))
          => proc[p].outcome = Invalid

(* C7: no redeemable row without its blob.  In every state, a row of type
   'file' with now < expires_at and not (one_time and downloaded) has its
   file in the upload folder. *)
NoRedeemableRowWithoutBlob ==
    \A r \in FileRows :
       (clock < r.expires_at /\ ~(r.one_time # 0 /\ r.downloaded # 0))
          => r.saved_name \in DOMAIN blobs

(* C8: a failed upload leaves no blob.  After a save_file call whose INSERT
   or commit failed, the file it wrote is not in the upload folder. *)
FailedUploadLeavesNoBlob ==
    \A p \in Ended :
       (proc[p].op = "save_file" /\ proc[p].outcome \in {IntegrityError, OperationalError})
          => proc[p].saved_name \notin DOMAIN blobs

(* C9: round trip for reusable entries.  A redemption that evaluated an entry
   stored with one_time=0 while now < expires_at ends normally and returns
   the stored payload. *)
ReusableRoundTrip ==
    \A p \in Redemptions \cap Ended :
       (Found(p) /\ ~OneTime(p) /\ proc[p].now < proc[p].rec.expires_at)
          => /\ proc[p].outcome = "ok"
             /\ proc[p].data = IF proc[p].rec.type = "text"
                               THEN proc[p].rec.text_content
                               ELSE "f1"

(* C10: the sweep hides expired rows from redemption.  Past its expiry check, the
   row a redemption looked up has expires_at > the time read at the check. *)
SweepHidesExpired ==
    \A p \in Redemptions :
       (Found(p) /\ proc[p].pc \notin {"d_fetch", "d_check"})
          => proc[p].rec.expires_at > proc[p].now

(* size in bytes of an offered payload *)
SizeOfPayload(content) == (CHOOSE f \in UploadedFiles : f.content = content).size

(* C11: size rejection precedes every mutation.  A save_file call ends in
   the size error exactly when its payload is larger than
   MAX_FILE_SIZE_MB * 1024 * 1024 bytes (a payload of exactly that size goes
   on), and the step that refuses it leaves the table, the upload folder and
   the id counter as they were. *)
SizeRejectionBeforeMutation ==
    [][\A p \in Procs :
         (proc'[p] # proc[p] /\ proc'[p].op = "save_file" /\ proc'[p].payload # NoData)
            => /\ (proc'[p].outcome = ValueError)
                    <=> (SizeOfPayload(proc'[p].payload) > MAX_FILE_SIZE_MB * 1024 * 1024)
               /\ (proc'[p].outcome = ValueError)
                    => UNCHANGED <<files, blobs, nextId>>]_vars

SizeRejectionWitness ==
    /\ \E p \in Ended : /\ proc[p].op = "save_file"
                         /\ proc[p].outcome = ValueError
                         /\ proc[p].payload = "f2"
    /\ \E r \in FileRows : /\ Exists(blobs, r.saved_name)
                            /\ blobs[r.saved_name] = "f1"

(* C12: expiry after creation.  Every row of the table has
   expires_at > created_at, whatever expiry_seconds save_file and save_text
   were called with. *)
ExpiryAfterCreation == \A r \in files : r.expires_at > r.created_at

(* C16: every upload terminates.  An upload that has started ends: its
   code-allocation loop reaches its exit in every execution, also when every
   code of the generator's range is held by a row. *)
UploadsTerminate ==
    \A p \in Procs :
       (proc[p].op \in {"save_file", "save_text"} /\ ~Free(p)) ~> Free(p)

(* C13: a blob-delete failure never aborts the sweep.  A running sweep
   leaves its loop only when it has gone through every row it selected, and
   only by the DELETE and its commit, after which the caller goes on (to the
   buttons, to the lookup, or returns) with no row of expires_at <= now left
   in the table; a failing unlink moves it on to the next selected row. *)
SweepSurvivesUnlinkFailure ==
    [][\A p \in Procs :
         /\ (proc[p].pc \in {"c_loop", "c_unlink"} /\ proc'[p] # proc[p])
               => \/ /\ proc'[p].pc \in {"c_loop", "c_unlink"}
                     /\ proc'[p].now = proc[p].now
                     /\ proc'[p].rows \in {proc[p].rows, Tail(proc[p].rows)}
                  \/ /\ proc[p].rows = <<>>
                     /\ proc'[p].pc = "c_commit"
                     /\ proc'[p].now = proc[p].now
         /\ (proc[p].pc = "c_commit" /\ proc'[p] # proc[p])
               => /\ \/ proc'[p].pc \in {"buttons", "d_lookup"}
                     \/ proc'[p].pc = "done" /\ proc'[p].outcome = "ok"
                  /\ \A r \in files' : r.expires_at > proc[p].now]_vars

(* the sweep of line 163 has ended with its DELETE and the run is at the
   buttons: the two entries stored before (ids 1 and 2) have expired and are
   out of the table, and a blob whose unlink failed is still in the folder *)
SweepSurvivesWitness ==
    /\ \E p \in Procs : /\ proc[p].pc = "buttons"
                         /\ \A q \in Procs \ {p} : proc[q].pc = "idle"
    /\ files = {}
    /\ nextId = 3
    /\ Cardinality(DOMAIN blobs) = 1

(* C14: double delete is tolerated by every deleter.  No sweep, no one-time
   consumption and no delete_file call ends in the exception of a file that
   another deleter removed in between, and once a delete_file call that
   found its row has returned and no request is running, the row and the
   blob of that entry are gone. *)
DoubleDeleteTolerated ==
    \A p \in Ended :
       /\ proc[p].op \in {"run", "sweep"} => proc[p].outcome # Crash
       /\ (proc[p].op = "download" /\ Served(p) /\ proc[p].rec.type = "file")
             => proc[p].outcome # Crash
       /\ (proc[p].op = "delete" /\ Found(p))
             => /\ proc[p].outcome # Crash
                /\ (Quiescent /\ proc[p].outcome = "true")
                     => /\ \A r \in files : r.id # proc[p].rec.id
                        /\ ~Exists(blobs, proc[p].rec.saved_name)

(* C15: a missing blob at redemption is an ordinary failure.  A redemption
   that found an unexpired, unconsumed row of type 'file' and could not read
   its blob (absent at the exists() check, or removed before the read) ends
   in the same outcome as an unknown code, and not abnormally. *)
MissingBlobOrdinaryFailure ==
    \A p \in Redemptions \cap Ended :
       (/\ Found(p)
        /\ proc[p].rec.type = "file"
        /\ proc[p].rec.expires_at > proc[p].now
        /\ ~(proc[p].rec.one_time # 0 /\ proc[p].rec.downloaded # 0)
        /\ ~Served(p))
          => proc[p].outcome = Invalid

(* C17: no leakage of the session checkbox into redemption.  Whatever
   st.session_state["one_time_download"] holds in the redeeming session, a
   redemption that has handed out a payload goes on to delete the entry
   exactly when the one_time of the row it looked up is set; otherwise it
   ends there and leaves every row and every blob in place.  A redemption
   ends as already downloaded only for a row whose one_time is set, and no
   step of a redemption changes the session value. *)
SessionFlagIgnored ==
    [][\A p \in Procs :
         (proc[p].op = "download" /\ proc'[p] # proc[p])
            => /\ session' = session
               /\ proc'[p].outcome = Already => proc[p].rec.one_time # 0
               /\ proc[p].pc = "m_update" => proc'[p].pc = "m_commit"
               /\ proc[p].pc = "m_commit"
                    => IF proc[p].rec.one_time # 0
                       THEN proc'[p].pc \in {"m_unlink", "m_delete"}
                       ELSE /\ proc'[p].pc \in {"done", "dash_next"}
                            /\ blobs' = blobs
                            /\ \A r \in files : \E r2 \in files' : r2.id = r.id]_vars

(* a session whose checkbox value is TRUE has redeemed a reusable entry,
   which is still in the table, and the uploader's session holds FALSE *)
SessionFlagWitness ==
    \E p \in Redemptions \cap Ended :
       /\ proc[p].outcome = "ok"
       /\ proc[p].rec.one_time = 0
       /\ session[p]
       /\ \E q \in Procs \ {p} : ~session[q]
       /\ \E r \in files : r.id = proc[p].rec.id /\ r.downloaded = 1

(* C18: per-entry state machine.  In every step, a row that stays in the
   table keeps its code, one_time, created_at and expires_at and its
   downloaded does not go from 1 to 0; a row that enters the table has an id
   that no row has had before (every id handed out so far is below nextId,
   which never decreases), so a deleted id does not come back. *)
EntryStateMachine ==
    [][/\ \A r \in files : \A r2 \in files' :
             r2.id = r.id => /\ r2.code = r.code
                             /\ r2.one_time = r.one_time
                             /\ r2.created_at = r.created_at
                             /\ r2.expires_at = r.expires_at
                             /\ r2.downloaded >= r.downloaded
       /\ \A r \in files : r.id < nextId
       /\ nextId' >= nextId
       /\ \A r2 \in files' :
             (\A r \in files : r.id # r2.id) => (r2.id >= nextId /\ r2.id < nextId')]_vars

(* the entry with id 1 has left the table (consumed, swept or deleted) and
   the table holds an entry with id 2, which has been redeemed once *)
EntryStateMachineWitness ==
    /\ nextId = 3
    /\ \A r \in files : r.id # 1
    /\ \E r \in files : r.id = 2 /\ r.downloaded = 1

(* C19: the sweep removes exactly the expired entries.  Every step of a
   cleanup_expired call that read the clock as now (no unlink failing)
   removes only blobs named by a row of expires_at <= now and leaves every
   row of expires_at > now in the table, its blob in the folder with its
   bytes; its committed DELETE leaves exactly the rows of expires_at > now, and no file
   row of expires_at <= now that it removes has a blob left; a redemption
   whose sweep ran at or after a file entry's expiry finds no row for the
   code and ends in the invalid/expired outcome. *)
SweepRemovesExactlyExpired ==
    [][\A p \in Procs :
         /\ (proc[p].pc \in {"c_loop", "c_unlink", "c_commit"} /\ proc'[p] # proc[p])
               => /\ \A n \in DOMAIN blobs :
                        IF n \in DOMAIN blobs'
                        THEN blobs'[n] = blobs[n]
                        ELSE \E r \in files : /\ r.saved_name = n
                                              /\ r.expires_at <= proc[p].now
                  /\ \A r \in files :
                        r.expires_at > proc[p].now
                          => /\ r \in files'
                             /\ (r.type = "file" /\ r.saved_name \in DOMAIN blobs)
                                   => r.saved_name \in DOMAIN blobs'
         /\ (proc[p].pc = "c_commit" /\ proc'[p] # proc[p])
               => /\ files' = {r \in files : r.expires_at > proc[p].now}
                  /\ \A r \in files :
                        (r.type = "file" /\ r.expires_at <= proc[p].now)
                          => r.saved_name \notin DOMAIN blobs'
         /\ (proc[p].pc = "d_lookup" /\ proc'[p] # proc[p]
                /\ \A r \in files : r.code # proc[p].code)
               => /\ proc'[p].pc \in {"done", "dash_next"}
                  /\ proc'[p].outcome = Invalid
                  /\ proc'[p].data = NoData
                  /\ files' = files /\ blobs' = blobs]_vars

(* C19 witness: with three script runs in all, a file entry expired, the
   redemption of its code ended in the invalid/expired outcome, its row and
   its blob are gone (the uploads and the redemption delete nothing: a sweep
   removed them), and the file entry that has not expired is in the table
   with its blob. *)
SweepExactWitness ==
    \E p \in Redemptions \cap Ended, q \in Ended :
       /\ runs = 3
       /\ proc[q].op = "save_file" /\ proc[q].outcome = "ok"
       /\ proc[p].code = proc[q].code /\ proc[p].outcome = Invalid
       /\ proc[q].saved_name \notin DOMAIN blobs
       /\ \A r \in files : r.code # proc[q].code
       /\ \E r \in files : /\ r.type = "file" /\ r.expires_at > clock
                            /\ r.saved_name \in DOMAIN blobs

(* C20: a stale redemption never consumes a different entry.  Every step of
   mark_downloaded_and_maybe_delete in a redemption that looked up entry E
   leaves every row with another id as it was, and the blob of every such
   file row in place with its bytes, also when E is gone and a later upload
   holds E's code. *)
StaleRedemptionSparesOthers ==
    [][\A p \in Procs :
         (proc[p].pc \in {"m_update", "m_commit", "m_unlink", "m_delete", "m_delcommit"}
             /\ proc'[p] # proc[p])
            => \A r \in files :
                  r.id # proc[p].rec.id
                    => /\ r \in files'
                       /\ (r.type = "file" /\ r.saved_name \in DOMAIN blobs)
                             => /\ r.saved_name \in DOMAIN blobs'
                                /\ blobs'[r.saved_name] = blobs[r.saved_name]]_vars

(* C20 witness: a redemption that looked up entry E has executed its UPDATE,
   its unlink and its DELETE while E's row is no longer in the table and a
   later file entry holds E's code, with its blob and not downloaded. *)
StaleRedemptionWitness ==
    \E p \in Redemptions :
       /\ proc[p].pc = "m_delcommit"
       /\ \A r \in files : r.id # proc[p].rec.id
       /\ \E r \in files : /\ r.code = proc[p].code /\ r.id > proc[p].rec.id
                            /\ r.type = "file" /\ r.downloaded = 0
                            /\ r.saved_name \in DOMAIN blobs
                            /\ blobs[r.saved_name] = "f1"

====
